---- MODULE Spec2Model ----
(***************************************************************************)
(* Model of tagger (johnjallday/tagger): the directory classifier          *)
(* (ProjectInfo::generate_project_type), the tag generators                *)
(* (generate_programming_tags, generate_music_tags, generate_unknown_tags, *)
(* ProjectInfo::generate_tags) and the Git push-URL lookup                 *)
(* (extract_git_push_url).                                                 *)
(*                                                                         *)
(* File names, extensions and tags are strings; the string functions the   *)
(* code calls (to_lowercase, to_uppercase, eq_ignore_ascii_case, contains, *)
(* lines, trim, Path::extension, sort) are computed character by character.*)
(***************************************************************************)
EXTENDS Integers, Sequences, FiniteSets, TLC

(***************************************************************************)
(* Bounds                                                                  *)
(***************************************************************************)
\* Largest number of immediate entries of the scanned directory.
MaxEntries == 3

(***************************************************************************)
(* Characters and strings                                                  *)
(***************************************************************************)
\* The ASCII characters that occur in file names, tags and tool output.
Digits == "0123456789"
Upper == "ABCDEFGHIJKLMNOPQRSTUVWXYZ"
Lower == "abcdefghijklmnopqrstuvwxyz"
Punct == <<"\t", "\n", "\r", " ", "#", "-", ".", "/", ":", "@", "_">>
PunctCode == <<9, 10, 13, 32, 35, 45, 46, 47, 58, 64, 95>>

Char(s, i) == SubSeq(s, i, i)

\* Byte value of every character: the order Rust's String comparison uses.
OrdTable ==
  [c \in {Char(Digits, i) : i \in 1..10} \cup {Char(Upper, i) : i \in 1..26}
         \cup {Char(Lower, i) : i \in 1..26} \cup {Punct[i] : i \in 1..Len(Punct)} |->
     IF \E i \in 1..10 : Char(Digits, i) = c
       THEN 47 + (CHOOSE i \in 1..10 : Char(Digits, i) = c)
     ELSE IF \E i \in 1..26 : Char(Upper, i) = c
       THEN 64 + (CHOOSE i \in 1..26 : Char(Upper, i) = c)
     ELSE IF \E i \in 1..26 : Char(Lower, i) = c
       THEN 96 + (CHOOSE i \in 1..26 : Char(Lower, i) = c)
     ELSE PunctCode[CHOOSE i \in 1..Len(Punct) : Punct[i] = c]]

Ord(c) == OrdTable[c]

\* Option<T>: None is the empty tuple, Some(v) the one-element tuple.
None == <<>>
Some(v) == <<v>>

\* char::to_ascii_lowercase / to_ascii_uppercase on the characters above.
lower_char(c) ==
  LET n == Ord(c) IN IF n >= 65 /\ n <= 90 THEN Char(Lower, n - 64) ELSE c

upper_char(c) ==
  LET n == Ord(c) IN IF n >= 97 /\ n <= 122 THEN Char(Upper, n - 96) ELSE c

RECURSIVE to_lowercase(_)
\* str::to_lowercase, character by character.
to_lowercase(s) ==
  IF Len(s) = 0 THEN "" ELSE lower_char(Char(s, 1)) \o to_lowercase(Tail(s))

RECURSIVE to_uppercase(_)
\* str::to_uppercase, character by character.
to_uppercase(s) ==
  IF Len(s) = 0 THEN "" ELSE upper_char(Char(s, 1)) \o to_uppercase(Tail(s))

\* str::eq_ignore_ascii_case: same length and equal characters up to case.
eq_ignore_ascii_case(a, b) ==
  /\ Len(a) = Len(b)
  /\ \A i \in 1..Len(a) : lower_char(Char(a, i)) = lower_char(Char(b, i))

\* str::contains: pat occurs in s as a contiguous substring.
contains(s, pat) ==
  \E i \in 1..(Len(s) - Len(pat) + 1) : SubSeq(s, i, i + Len(pat) - 1) = pat

\* Vec::contains on a list of strings.
vec_contains(v, x) == \E i \in 1..Len(v) : v[i] = x

RECURSIVE str_lt(_, _)
\* Byte-wise lexicographic order on strings (Ord for String): a < b.
str_lt(a, b) ==
  IF Len(b) = 0 THEN FALSE
  ELSE IF Len(a) = 0 THEN TRUE
  ELSE IF Ord(Char(a, 1)) # Ord(Char(b, 1)) THEN Ord(Char(a, 1)) < Ord(Char(b, 1))
  ELSE str_lt(Tail(a), Tail(b))

(***************************************************************************)
(* Paths and directory listings                                            *)
(***************************************************************************)
\* An entry the directory iterator fails to read (Err); it carries no name.
ErrEntry == ""

\* File names the scanned directory may hold.
Names ==
  { "Cargo.toml", "Makefile", "project.rpp", "main.rs", "LIB.RS", "kick.wav",
    "snare.mp3", "image.png", "document.pdf", ".git", "Reaper.txt", "src" }

\* fs::read_dir(directory): every enumeration order of every set of at most
\* MaxEntries distinct names, with at most one unreadable entry.
Listings ==
  { l \in UNION { [1..n -> Names \cup {ErrEntry}] : n \in 0..MaxEntries } :
      \A i, j \in 1..Len(l) : i # j => l[i] # l[j] }

\* Names of the entries that were read successfully.
entry_names(entries) == { entries[i] : i \in 1..Len(entries) } \ {ErrEntry}

\* Path::exists for directory.join(name).
exists(entries, name) == name \in entry_names(entries)

RECURSIVE last_dot(_)
\* Position of the last '.' of a file name, 0 if there is none.
last_dot(name) ==
  IF Len(name) = 0 THEN 0
  ELSE IF Char(name, Len(name)) = "." THEN Len(name)
  ELSE last_dot(SubSeq(name, 1, Len(name) - 1))

\* Path::extension: the part after the last '.', None without a '.' or when
\* the only '.' is the first character.
extension(name) ==
  LET dot == last_dot(name)
  IN  IF name = ".." \/ dot <= 1
        THEN None
        ELSE Some(SubSeq(name, dot + 1, Len(name)))

\* The extensions (ext_str) of the entries that have one.
ext_strs(entries) ==
  { ext[1] : ext \in { extension(name) : name \in entry_names(entries) } \ {None} }

(***************************************************************************)
(* ProjectInfo::generate_project_type                                      *)
(***************************************************************************)
programming_indicators ==
  << "Cargo.toml", "package.json", "setup.py", "pom.xml", "build.gradle",
     "Makefile", "Gemfile", "requirements.txt" >>

music_production_indicators ==
  << "project.als", "project.flp", "project.logic", "project.rpp",
     "project.studioone" >>

\* The arms of the match on the lower-cased extension.
programming_file_extensions ==
  { "rs", "py", "js", "java", "cpp", "c", "cs", "go", "rb", "swift" }

music_file_extensions ==
  { "wav", "mp3", "flac", "ogg", "aiff", "rpp", "flp", "logic", "studioone" }

RECURSIVE scan_entries_stop_at_first(_, _, _, _)
\* Variant: the loop stops as soon as either flag is set by an extension.
scan_entries_stop_at_first(entries, i, is_programming, is_music) ==
  IF i > Len(entries)
    THEN [is_programming |-> is_programming, is_music |-> is_music]
  ELSE IF entries[i] = ErrEntry
    THEN scan_entries_stop_at_first(entries, i + 1, is_programming, is_music)
  ELSE IF vec_contains(programming_indicators, entries[i])
    THEN [is_programming |-> TRUE, is_music |-> is_music]
  ELSE IF vec_contains(music_production_indicators, entries[i])
    THEN [is_programming |-> is_programming, is_music |-> TRUE]
  ELSE IF extension(entries[i]) = None
    THEN scan_entries_stop_at_first(entries, i + 1, is_programming, is_music)
  ELSE
    LET ext == to_lowercase(extension(entries[i])[1])
        p == is_programming \/ ext \in programming_file_extensions
        m == is_music \/ ext \in music_file_extensions
    IN  IF p \/ m
          THEN [is_programming |-> p, is_music |-> m]
          ELSE scan_entries_stop_at_first(entries, i + 1, p, m)

RECURSIVE scan_entries(_, _, _, _)
\* The for loop over the entries from position i on, with the flags so far;
\* yields the flags at the end of the loop or at a break.
scan_entries(entries, i, is_programming, is_music) ==
  IF i > Len(entries)
    THEN [is_programming |-> is_programming, is_music |-> is_music]
  ELSE IF entries[i] = ErrEntry
    THEN scan_entries(entries, i + 1, is_programming, is_music)
  ELSE IF vec_contains(programming_indicators, entries[i])
    THEN [is_programming |-> TRUE, is_music |-> is_music]
  ELSE IF vec_contains(music_production_indicators, entries[i])
    THEN [is_programming |-> is_programming, is_music |-> TRUE]
  ELSE IF extension(entries[i]) = None
    THEN scan_entries(entries, i + 1, is_programming, is_music)
  ELSE
    LET ext == to_lowercase(extension(entries[i])[1])
        p == is_programming \/ ext \in programming_file_extensions
        m == is_music \/ ext \in music_file_extensions
    IN  IF p /\ m
          THEN [is_programming |-> p, is_music |-> m]
          ELSE scan_entries(entries, i + 1, p, m)

\* Variant: the decision tests is_music before is_programming.
generate_project_type_music_first(entries) ==
  LET flags == scan_entries(entries, 1, FALSE, FALSE)
  IN  IF flags.is_music THEN "music"
      ELSE IF flags.is_programming THEN "programming"
      ELSE "unknown"

\* Variant: the decision has no test of is_music before its last branch.
generate_project_type_no_unknown(entries) ==
  LET flags == scan_entries(entries, 1, FALSE, FALSE)
  IN  IF flags.is_programming THEN "programming" ELSE "music"

\* The scan, then the decision on the two flags.
generate_project_type(entries) ==
  LET flags == scan_entries(entries, 1, FALSE, FALSE)
  IN  IF flags.is_programming THEN "programming"
      ELSE IF flags.is_music THEN "music"
      ELSE "unknown"

(***************************************************************************)
(* Collections                                                             *)
(***************************************************************************)
RECURSIVE into_iter(_)
\* HashSet::into_iter: the elements once each, in an unspecified order; the
\* set of all orders the iteration may produce.
into_iter(set) ==
  IF set = {} THEN { <<>> }
  ELSE UNION { { <<x>> \o rest : rest \in into_iter(set \ {x}) } : x \in set }

\* Collecting a Vec into a HashSet.
collect(v) == { v[i] : i \in 1..Len(v) }

\* Inserts x into the sorted vector v, after the elements not greater than it.
insert_sorted(v, x) ==
  LET k == Cardinality({ i \in 1..Len(v) : ~ str_lt(x, v[i]) })
  IN  SubSeq(v, 1, k) \o <<x>> \o SubSeq(v, k + 1, Len(v))

RECURSIVE sort(_)
\* Vec<String>::sort: ascending by byte-wise string order.
sort(v) ==
  IF Len(v) = 0 THEN v
  ELSE insert_sorted(sort(SubSeq(v, 1, Len(v) - 1)), v[Len(v)])

(***************************************************************************)
(* programming::generate_programming_tags                                  *)
(***************************************************************************)
\* (language, extension) pairs.
programming_extensions ==
  << <<"rust", "rs">>, <<"python", "py">>, <<"javascript", "js">>,
     <<"java", "java">>, <<"cpp", "cpp">>, <<"c", "c">>, <<"c#", "cs">>,
     <<"go", "go">>, <<"ruby", "rb">>, <<"swift", "swift">> >>

\* language_set after the loop over the entries.
language_set(entries) ==
  LET exts == ext_strs(entries)
  IN  { programming_extensions[k][1] : k \in
          { k \in 1..Len(programming_extensions) :
              \E ext_str \in exts :
                eq_ignore_ascii_case(ext_str, programming_extensions[k][2]) } }

\* Variant: the general tag "cli" is not pushed.
generate_programming_tags_no_cli(entries) ==
  { langs \o <<"software development">>
          \o (IF exists(entries, "Cargo.toml") THEN <<"rust">> ELSE <<>>) :
      langs \in into_iter(language_set(entries)) }

\* Variant: no check for Cargo.toml.
generate_programming_tags_no_manifest(entries) ==
  { langs \o <<"cli", "software development">> :
      langs \in into_iter(language_set(entries)) }

\* The vectors generate_programming_tags may return (one per iteration order
\* of language_set).
generate_programming_tags(entries) ==
  { langs \o <<"cli", "software development">>
          \o (IF exists(entries, "Cargo.toml") THEN <<"rust">> ELSE <<>>) :
      langs \in into_iter(language_set(entries)) }

(***************************************************************************)
(* music::generate_music_tags                                              *)
(***************************************************************************)
audio_extensions == << "wav", "mp3", "flac", "ogg", "aiff" >>

daws ==
  << "ableton live", "fl studio", "logic pro", "reaper", "presonus studio one" >>

\* audio_format_set after the loop over the entries.
audio_format_set(entries) ==
  LET exts == ext_strs(entries)
  IN  { to_uppercase(audio_extensions[k]) : k \in
          { k \in 1..Len(audio_extensions) :
              \E ext_str \in exts :
                eq_ignore_ascii_case(ext_str, audio_extensions[k]) } }

\* daw.to_lowercase() for every entry of daws.
daws_lowercase == [k \in 1..Len(daws) |-> to_lowercase(daws[k])]

\* daw_set after the loop over the entries.
daw_set(entries) ==
  LET file_name_strs == { to_lowercase(name) : name \in entry_names(entries) }
  IN  { daws[k] : k \in
          { k \in 1..Len(daws) :
              \E file_name_str \in file_name_strs :
                contains(file_name_str, daws_lowercase[k]) } }

\* The vectors generate_music_tags may return.
generate_music_tags(entries) ==
  { formats \o names \o <<"audio", "production">> :
      formats \in into_iter(audio_format_set(entries)),
      names \in into_iter(daw_set(entries)) }

(***************************************************************************)
(* ProjectInfo::generate_unknown_tags, ProjectInfo::generate_tags          *)
(***************************************************************************)
\* generic_tags after the loop over the entries.
generic_tags(entries) == { to_uppercase(ext_str) : ext_str \in ext_strs(entries) }

\* Variant: the extensions are inserted as they are, not upper-cased.
generate_unknown_tags_no_upper(entries) == into_iter(ext_strs(entries))

\* The vectors generate_unknown_tags may return.
generate_unknown_tags(entries) == into_iter(generic_tags(entries))

\* The match on project_type.
tags_for_type(entries, project_type) ==
  IF project_type = "programming" THEN generate_programming_tags(entries)
  ELSE IF project_type = "music" THEN generate_music_tags(entries)
  ELSE generate_unknown_tags(entries)

\* Variant: the tags are not passed through a HashSet.
unique_tags_no_dedup(tags) == { tags }

\* Deduplication: the tags collected into a HashSet and back into a Vec, in
\* any iteration order.
unique_tags(tags) == into_iter(collect(tags))

\* The vectors generate_tags may return: the deduplicated tags, sorted.
generate_tags(entries, project_type) ==
  { sort(unique) :
      unique \in UNION { unique_tags(tags) :
                           tags \in tags_for_type(entries, project_type) } }

(***************************************************************************)
(* programming::extract_git_push_url                                       *)
(***************************************************************************)
\* io::Result<Output> of Command::output: the tool could not be started, or
\* it ran and left an exit status and its standard output.
SpawnError == [started |-> FALSE]
Exited(success, stdout) == [started |-> TRUE, success |-> success, stdout |-> stdout]

\* What `git remote` may answer.
RemotesOutputs ==
  { SpawnError, Exited(FALSE, ""), Exited(TRUE, ""), Exited(TRUE, "origin\n"),
    Exited(TRUE, "upstream\norigin\n") }

\* What `git remote get-url --push <name>` may answer.
PushUrlOutputs ==
  { SpawnError, Exited(FALSE, ""), Exited(TRUE, ""), Exited(TRUE, "\n"),
    Exited(TRUE, "git@host:org/repo.git\n"), Exited(TRUE, " /srv/r.git \n") }

is_whitespace(c) == c \in { " ", "\t", "\n", "\r" }

RECURSIVE trim_start(_)
trim_start(s) ==
  IF Len(s) > 0 /\ is_whitespace(Char(s, 1)) THEN trim_start(Tail(s)) ELSE s

RECURSIVE trim_end(_)
trim_end(s) ==
  IF Len(s) > 0 /\ is_whitespace(Char(s, Len(s)))
    THEN trim_end(SubSeq(s, 1, Len(s) - 1))
    ELSE s

\* str::trim.
trim(s) == trim_end(trim_start(s))

RECURSIVE lines(_)
\* str::lines: the text split at "\n" (a "\r" before it removed), without a
\* final empty line.
lines(s) ==
  IF Len(s) = 0 THEN <<>>
  ELSE IF \E i \in 1..Len(s) : Char(s, i) = "\n"
    THEN LET nl == CHOOSE i \in 1..Len(s) :
                     /\ Char(s, i) = "\n"
                     /\ \A j \in 1..(i - 1) : Char(s, j) # "\n"
             line == SubSeq(s, 1, nl - 1)
         IN  << IF Len(line) > 0 /\ Char(line, Len(line)) = "\r"
                  THEN SubSeq(line, 1, Len(line) - 1)
                  ELSE line >>
             \o lines(SubSeq(s, nl + 1, Len(s)))
    ELSE <<s>>

\* A run of the external tool: its arguments and what it answered.
Command(args, output) == [args |-> args, output |-> output]

\* Variant: no check that directory/.git exists.
extract_git_push_url_no_git_check(entries, remotes_output, push_url_output) ==
  LET list_remotes == << Command(<<"git", "remote">>, remotes_output) >>
  IN  IF ~ remotes_output.started \/ ~ remotes_output.success
           \/ Len(lines(remotes_output.stdout)) = 0
        THEN [ret |-> None, commands |-> list_remotes]
      ELSE
        LET remote_name == lines(remotes_output.stdout)[1]
            get_url == Command(<<"git", "remote", "get-url", "--push", remote_name>>,
                               push_url_output)
        IN  IF push_url_output.started /\ push_url_output.success
              THEN [ret |-> Some(trim(push_url_output.stdout)),
                    commands |-> Append(list_remotes, get_url)]
              ELSE [ret |-> None, commands |-> Append(list_remotes, get_url)]

\* The function's result and the commands it ran, given what the two
\* invocations of the tool answer.
extract_git_push_url(entries, remotes_output, push_url_output) ==
  IF ~ exists(entries, ".git")
    THEN [ret |-> None, commands |-> <<>>]
  ELSE
    LET list_remotes == << Command(<<"git", "remote">>, remotes_output) >>
    IN  IF ~ remotes_output.started \/ ~ remotes_output.success
             \/ Len(lines(remotes_output.stdout)) = 0
          THEN [ret |-> None, commands |-> list_remotes]
        ELSE
          LET remote_name == lines(remotes_output.stdout)[1]
              get_url == Command(<<"git", "remote", "get-url", "--push", remote_name>>,
                                 push_url_output)
          IN  IF push_url_output.started /\ push_url_output.success
                THEN [ret |-> Some(trim(push_url_output.stdout)),
                      commands |-> Append(list_remotes, get_url)]
                ELSE [ret |-> None, commands |-> Append(list_remotes, get_url)]

(***************************************************************************)
(* ProjectInfo: the record, its creation, its methods                      *)
(***************************************************************************)
\* Largest number of entries of a directory a record is generated for.
MaxProjectEntries == 1

\* Largest number of calls of add_note on one record.
MaxNotes == 2

\* The directories records are generated for.
ProjectListings == { l \in Listings : Len(l) <= MaxProjectEntries }

\* What fs::canonicalize(directory) may answer: Err, or the absolute path.
CanonicalizeResults == { None, Some("/"), Some("/home/tagger") }

\* Points in time: what the file system reports and what Local::now() reads.
FileTimes == { 1, 2 }
NowTimes == { 3 }

\* What fs::metadata(directory) may answer: Err, or metadata whose created()
\* and modified() are each Ok(time) or Err.
MetadataResults ==
  { None }
    \cup { Some([created |-> c, modified |-> m]) :
             c \in { None } \cup { Some(t) : t \in FileTimes },
             m \in { None } \cup { Some(t) : t \in FileTimes } }

RECURSIVE last_slash(_)
\* Position of the last '/' of a path, 0 if there is none.
last_slash(path) ==
  IF Len(path) = 0 THEN 0
  ELSE IF Char(path, Len(path)) = "/" THEN Len(path)
  ELSE last_slash(SubSeq(path, 1, Len(path) - 1))

\* Path::file_name of an absolute path: its last component, None for the root.
file_name(path) ==
  IF last_slash(path) = Len(path)
    THEN None
    ELSE Some(SubSeq(path, last_slash(path) + 1, Len(path)))

\* get_creation_time: the file system's time, the current time without one.
get_creation_time(metadata, now) ==
  IF metadata.created # None THEN metadata.created[1] ELSE now

\* get_modification_time, likewise.
get_modification_time(metadata, now) ==
  IF metadata.modified # None THEN metadata.modified[1] ELSE now

\* The records generate_project_info may return for a readable directory
\* whose path and metadata were obtained.
generate_project_info(entries, abs_path, metadata, now) ==
  { [ name |-> IF file_name(abs_path) # None
                 THEN file_name(abs_path)[1]
                 ELSE "Unnamed Project",
      alias |-> "",
      project_type |-> generate_project_type(entries),
      tags |-> sorted_tags,
      date_created |-> get_creation_time(metadata, now),
      date_modified |-> get_modification_time(metadata, now),
      notes |-> <<>> ] :
      sorted_tags \in generate_tags(entries, generate_project_type(entries)) }

\* ProjectInfo::set_alias
set_alias(self, alias) == [self EXCEPT !.alias = alias]

\* Variant: the note replaces the notes instead of being pushed.
add_note_replace(self, note) == [self EXCEPT !.notes = <<note>>]

\* ProjectInfo::add_note
add_note(self, note) == [self EXCEPT !.notes = Append(@, note)]

\* toml::to_string(self): the fields as key/value pairs in declaration order.
to_toml(self) ==
  << <<"name", self.name>>, <<"alias", self.alias>>,
     <<"project_type", self.project_type>>, <<"tags", self.tags>>,
     <<"date_created", self.date_created>>,
     <<"date_modified", self.date_modified>>, <<"notes", self.notes>> >>

\* ProjectInfo::save_to_toml_file: what project_info.toml may hold afterwards
\* and what the call returns. File::create may fail, leaving the file as it
\* was; write_all may fail, leaving a created file with part of the text.
save_to_toml_file(self, file) ==
  { [file |-> file, ok |-> FALSE] }
    \cup { [file |-> Some(SubSeq(to_toml(self), 1, k)), ok |-> FALSE] :
             k \in 0..(Len(to_toml(self)) - 1) }
    \cup { [file |-> Some(to_toml(self)), ok |-> TRUE] }

(***************************************************************************)
(* main: the prompts                                                       *)
(***************************************************************************)
\* Lines io::stdin().read_line may deliver at the alias and note prompts.
TextLines == { "\n", "  \n", "demo\n", " v2 \n" }

\* Lines it may deliver at the save prompt ("" is end of input).
AnswerLines == { "y\n", "YES\n", " Yes \n", "n\n", "No\n", "maybe\n", "\n", "" }

\* Variant: every answer that is not n or no saves.
save_answer_default_yes(line) ==
  LET input == to_lowercase(trim(line))
  IN  IF input \in { "n", "no" } THEN "discard" ELSE "save"

\* The match on the trimmed, lower-cased answer.
save_answer(line) ==
  LET input == to_lowercase(trim(line))
  IN  IF input \in { "y", "yes" } THEN "save"
      ELSE IF input \in { "n", "no" } THEN "discard"
      ELSE "invalid"

(***************************************************************************)
(* State                                                                   *)
(***************************************************************************)
VARIABLES
  dir,           \* the directory's immediate entries, in enumeration order
  pc,            \* "start", then the call that was made or main's position
  project_type,  \* result of generate_project_type, None before the call
  tag_type,      \* the project_type passed to generate_tags
  tags,          \* result of generate_tags, None before the call
  url,           \* result of extract_git_push_url
  commands,      \* the invocations of the external tool, in order
  project,       \* the ProjectInfo record, None before it is generated
  added,         \* the notes passed to add_note, in call order
  toml_file,     \* what project_info.toml holds, None while it does not exist
  input          \* the line last read from standard input

vars ==
  <<dir, pc, project_type, tag_type, tags, url, commands, project, added,
    toml_file, input>>

\* The results of the calls on a directory; the record and its surroundings.
call_vars == <<project_type, tag_type, tags, url, commands>>
record_vars == <<project, added, toml_file, input>>

ProjectTypes == { "programming", "music", "unknown" }

\* Nothing was called yet.
Fresh ==
  /\ pc = "start"
  /\ project_type = None
  /\ tag_type = None
  /\ tags = None
  /\ url = None
  /\ commands = <<>>
  /\ project = None
  /\ added = <<>>
  /\ toml_file = None
  /\ input = ""

Init == dir \in Listings /\ Fresh

\* fs::read_dir fails: the error branch prints and calls process::exit(1).
ReadDirFails ==
  /\ pc = "start"
  /\ pc' = "exit"
  /\ UNCHANGED <<dir, project_type, tag_type, tags, url, commands, record_vars>>

\* ProjectInfo::generate_project_type(directory), the directory being read.
GenerateProjectType ==
  /\ pc = "start"
  /\ project_type' = Some(generate_project_type(dir))
  /\ pc' = "classified"
  /\ UNCHANGED <<dir, tag_type, tags, url, commands, record_vars>>

\* ProjectInfo::generate_tags(directory, project_type), the directory being
\* read.
GenerateTags ==
  /\ pc = "start"
  /\ \E t \in ProjectTypes :
       /\ tag_type' = Some(t)
       /\ \E result \in generate_tags(dir, t) : tags' = Some(result)
  /\ pc' = "tagged"
  /\ UNCHANGED <<dir, project_type, url, commands, record_vars>>

\* programming::extract_git_push_url(directory)
ExtractGitPushUrl ==
  /\ pc = "start"
  /\ \E remotes_output \in RemotesOutputs, push_url_output \in PushUrlOutputs :
       LET r == extract_git_push_url(dir, remotes_output, push_url_output)
       IN  /\ url' = r.ret
           /\ commands' = r.commands
  /\ pc' = "looked_up"
  /\ UNCHANGED <<dir, project_type, tag_type, tags, record_vars>>

Next ==
  \/ ReadDirFails
  \/ GenerateProjectType
  \/ GenerateTags
  \/ ExtractGitPushUrl

Spec == Init /\ [][Next]_vars

(***************************************************************************)
(* The record's methods, called in any order                               *)
(***************************************************************************)
InitRecord == dir \in ProjectListings /\ Fresh

\* ProjectInfo::generate_project_info(directory): Err when the path or the
\* metadata cannot be obtained, exit when the directory cannot be read.
GenerateProjectInfo ==
  /\ pc = "start"
  /\ \E abs_path \in CanonicalizeResults, metadata \in MetadataResults,
        readable \in BOOLEAN, now \in NowTimes :
       IF abs_path = None \/ metadata = None
         THEN pc' = "error" /\ UNCHANGED project
       ELSE IF ~ readable
         THEN pc' = "exit" /\ UNCHANGED project
       ELSE /\ \E info \in generate_project_info(dir, abs_path[1], metadata[1], now) :
                 project' = Some(info)
            /\ pc' = "generated"
  /\ UNCHANGED <<dir, call_vars, added, toml_file, input>>

\* project.set_alias(alias)
SetAlias ==
  /\ pc = "generated"
  /\ \E alias \in { trim(line) : line \in TextLines } :
       project' = Some(set_alias(project[1], alias))
  /\ UNCHANGED <<dir, pc, call_vars, added, toml_file, input>>

\* project.add_note(note)
AddNote ==
  /\ pc = "generated"
  /\ Len(added) < MaxNotes
  /\ \E note \in { trim(line) : line \in TextLines } :
       /\ project' = Some(add_note(project[1], note))
       /\ added' = Append(added, note)
  /\ UNCHANGED <<dir, pc, call_vars, toml_file, input>>

RecordNext ==
  \/ GenerateProjectInfo
  \/ SetAlias
  \/ AddNote

RecordSpec == InitRecord /\ [][RecordNext]_vars

(***************************************************************************)
(* main                                                                    *)
(***************************************************************************)
\* What read_line may answer: Err, or the line.
ReadLine(choices) == { None } \cup { Some(line) : line \in choices }

\* main up to the first prompt: the argument checks exit, a failure of
\* generate_project_info is returned, else the record is printed.
MainStart ==
  /\ pc = "start"
  /\ \E argc \in { 1, 2 }, path \in { "missing", "file", "directory" },
        abs_path \in CanonicalizeResults, metadata \in MetadataResults,
        readable \in BOOLEAN, now \in NowTimes :
       IF argc # 2 \/ path # "directory"
         THEN pc' = "exit" /\ UNCHANGED project
       ELSE IF abs_path = None \/ metadata = None
         THEN pc' = "error" /\ UNCHANGED project
       ELSE IF ~ readable
         THEN pc' = "exit" /\ UNCHANGED project
       ELSE /\ \E info \in generate_project_info(dir, abs_path[1], metadata[1], now) :
                 project' = Some(info)
            /\ pc' = "alias_prompt"
  /\ UNCHANGED <<dir, call_vars, added, toml_file, input>>

\* The alias prompt: a read error is returned, a non-empty trimmed line is
\* set as the alias.
AliasPrompt ==
  /\ pc = "alias_prompt"
  /\ \E alias_input \in ReadLine(TextLines) :
       IF alias_input = None
         THEN pc' = "error" /\ UNCHANGED <<project, input>>
         ELSE /\ input' = alias_input[1]
              /\ project' = IF Len(trim(alias_input[1])) > 0
                              THEN Some(set_alias(project[1], trim(alias_input[1])))
                              ELSE project
              /\ pc' = "note_prompt"
  /\ UNCHANGED <<dir, call_vars, added, toml_file>>

\* The note prompt: a read error is returned, a non-empty trimmed line is
\* added as a note.
NotePrompt ==
  /\ pc = "note_prompt"
  /\ \E note_input \in ReadLine(TextLines) :
       IF note_input = None
         THEN pc' = "error" /\ UNCHANGED <<project, added, input>>
         ELSE /\ input' = note_input[1]
              /\ IF Len(trim(note_input[1])) > 0
                   THEN /\ project' = Some(add_note(project[1], trim(note_input[1])))
                        /\ added' = Append(added, trim(note_input[1]))
                   ELSE UNCHANGED <<project, added>>
              /\ pc' = "save_prompt"
  /\ UNCHANGED <<dir, call_vars, toml_file>>

\* One round of the save loop: a read error is returned; y or yes saves and
\* ends the loop (a failed save exits); n or no ends it; anything else
\* prompts again.
SavePrompt ==
  /\ pc = "save_prompt"
  /\ \E answer \in ReadLine(AnswerLines) :
       IF answer = None
         THEN pc' = "error" /\ UNCHANGED <<toml_file, input>>
         ELSE /\ input' = answer[1]
              /\ IF save_answer(answer[1]) = "save"
                   THEN \E result \in save_to_toml_file(project[1], toml_file) :
                          /\ toml_file' = result.file
                          /\ pc' = IF result.ok THEN "done" ELSE "exit"
                 ELSE IF save_answer(answer[1]) = "discard"
                   THEN pc' = "done" /\ UNCHANGED toml_file
                 ELSE pc' = "save_prompt" /\ UNCHANGED toml_file
  /\ UNCHANGED <<dir, call_vars, project, added>>

MainNext ==
  \/ MainStart
  \/ AliasPrompt
  \/ NotePrompt
  \/ SavePrompt

MainSpec == InitRecord /\ [][MainNext]_vars

(***************************************************************************)
(* Properties                                                              *)
(***************************************************************************)
IsProgrammingMarker(name) == vec_contains(programming_indicators, name)
IsMusicMarker(name) == vec_contains(music_production_indicators, name)

\* Some programming marker is listed with no music marker before it.
ProgrammingMarkerScannedFirst ==
  \E i \in 1..Len(dir) :
    /\ IsProgrammingMarker(dir[i])
    /\ \A j \in 1..(i - 1) : ~ IsMusicMarker(dir[j])

\* The lower-cased extensions of the readable entries.
LowerExts == { to_lowercase(e) : e \in ext_strs(dir) }

Classified(t) == pc = "classified" /\ project_type = Some(t)
Tagged(t) == pc = "tagged" /\ tag_type = Some(t)
HasTag(tag) == \E i \in 1..Len(tags[1]) : tags[1][i] = tag

\* C1: a listing with a programming marker that no music marker precedes in
\* enumeration order is classified "programming", whatever else it holds.
C1_ProgrammingMarkerWins ==
  (pc = "classified" /\ ProgrammingMarkerScannedFirst)
    => project_type = Some("programming")

\* A programming marker scanned after an entry with an audio extension.
C1_Witness ==
  /\ Classified("programming")
  /\ \E i \in 2..Len(dir) :
       /\ IsProgrammingMarker(dir[i])
       /\ \E j \in 1..(i - 1) : dir[j] = "kick.wav"

\* C2: a listing with a music marker and no programming marker is classified
\* "music", whatever its other entries are.
C2_MusicMarkerWins ==
  ( /\ pc = "classified"
    /\ \E name \in entry_names(dir) : IsMusicMarker(name)
    /\ \A name \in entry_names(dir) : ~ IsProgrammingMarker(name) )
    => project_type = Some("music")

C4_TagsSortedUnique ==
  pc = "tagged" =>
    \A i \in 1..(Len(tags[1]) - 1) : str_lt(tags[1][i], tags[1][i + 1])

\* "rust" is emitted for main.rs and again for Cargo.toml.
C4_Witness ==
  /\ Tagged("programming")
  /\ {"main.rs", "Cargo.toml"} \subseteq entry_names(dir)
  /\ tags = Some(<<"cli", "rust", "software development">>)

\* C5 as stated: programming tags always hold "command-line" and "software
\* development", music tags always hold "audio" and "production".
C5_FixedTagsAsStated ==
  /\ Tagged("programming") => HasTag("command-line") /\ HasTag("software development")
  /\ Tagged("music") => HasTag("audio") /\ HasTag("production")

\* C5, amended: programming tags always hold "cli" and "software
\* development", music tags always hold "audio" and "production".
C5_FixedTags ==
  /\ Tagged("programming") => HasTag("cli") /\ HasTag("software development")
  /\ Tagged("music") => HasTag("audio") /\ HasTag("production")

\* The empty directory tagged as a programming project.
C5_Witness ==
  /\ Tagged("programming")
  /\ dir = <<>>
  /\ tags = Some(<<"cli", "software development">>)

C7_NoGitNoLookup ==
  (pc = "looked_up" /\ ~ exists(dir, ".git")) => url = None /\ commands = <<>>

\* A lookup in a directory of source files that has no .git entry.
C7_Witness ==
  /\ pc = "looked_up"
  /\ ~ exists(dir, ".git")
  /\ {"Cargo.toml", "main.rs"} \subseteq entry_names(dir)
  /\ url = None
  /\ commands = <<>>

\* The command ran, exited with success and wrote something.
Yielded(command) ==
  /\ command.output.started
  /\ command.output.success
  /\ Len(command.output.stdout) > 0

\* C8: with a .git entry, a value is returned only when both commands succeed
\* and yield output, and it is the trimmed push URL of the first listed
\* remote; a failure of either command (not started, non-zero exit, no
\* remote listed, no output of get-url) gives None.
C8_PushUrlOnlyOnOutput ==
  (pc = "looked_up" /\ exists(dir, ".git")) =>
    /\ url # None =>
         /\ Len(commands) = 2
         /\ Yielded(commands[1])
         /\ Yielded(commands[2])
         /\ commands[2].args[5] = lines(commands[1].output.stdout)[1]
         /\ url = Some(trim(commands[2].output.stdout))
    /\ (\E k \in 1..Len(commands) : ~ Yielded(commands[k])) => url = None

\* C9: music tags hold the upper-cased extension of every entry whose
\* extension is a music format of the classifier; for project.rpp, kick.wav
\* and snare.mp3 they hold "WAV", "MP3" and "RPP".
C9_MusicExtensionTags ==
  Tagged("music") =>
    /\ \A e \in LowerExts \cap music_file_extensions : HasTag(to_uppercase(e))
    /\ entry_names(dir) = {"project.rpp", "kick.wav", "snare.mp3"}
         => HasTag("WAV") /\ HasTag("MP3") /\ HasTag("RPP")

\* The display names of the DAWs of daws, in the same order.
DawDisplayNames ==
  << "Ableton Live", "FL Studio", "Logic Pro", "Reaper", "Presonus Studio One" >>

\* C10: music tags hold the display name of every DAW whose name occurs, in
\* any letter case, in an entry's file name; a directory with project.rpp is
\* tagged "Reaper".
C10_DawDisplayNameTags ==
  Tagged("music") =>
    /\ \A k \in 1..Len(daws) :
         (\E name \in entry_names(dir) :
            contains(to_lowercase(name), to_lowercase(daws[k])))
           => HasTag(DawDisplayNames[k])
    /\ exists(dir, "project.rpp") => HasTag("Reaper")

\* C11: a directory whose only immediate entry is the subdirectory src (which
\* holds main.rs) and which has no marker file is classified "programming",
\* and generate_tags for it returns "rust", "cli" and "software development".
C11_SourceSubdirectory ==
  /\ (pc = "classified" /\ dir = <<"src">>) => project_type = Some("programming")
  /\ (pc = "tagged" /\ dir = <<"src">> /\ tag_type = Some("programming"))
       => HasTag("rust") /\ HasTag("cli") /\ HasTag("software development")

NoMarker ==
  \A name \in entry_names(dir) : ~ IsProgrammingMarker(name) /\ ~ IsMusicMarker(name)

TagSet == { tags[1][i] : i \in 1..Len(tags[1]) }

C14_RecordFrame ==
  [][ project # None =>
        /\ project' # None
        /\ project'[1].project_type = project[1].project_type
        /\ project'[1].tags = project[1].tags
        /\ project'[1].name = project[1].name
        /\ project'[1].date_created = project[1].date_created
        /\ project'[1].date_modified = project[1].date_modified
        /\ project[1].notes = added
        /\ project'[1].notes = added'
        /\ Len(project'[1].notes) >= Len(project[1].notes)
        /\ SubSeq(project'[1].notes, 1, Len(project[1].notes)) = project[1].notes
        /\ project'[1].alias # project[1].alias
             => project'[1].notes = project[1].notes ]_vars

\* A music record after set_alias and two calls of add_note.
C14_Witness ==
  /\ pc = "generated"
  /\ project # None
  /\ project[1].project_type = "music"
  /\ project[1].alias = "demo"
  /\ project[1].notes = <<"v2", "demo">>

\* The answers that mean yes and those that mean no.
YesLines == { "y\n", "YES\n", " Yes \n" }
NoLines == { "n\n", "No\n" }

\* C15: in main, project_info.toml is written only on an answer of y or yes,
\* and only once; n or no ends the loop without a write; any other answer
\* prompts again and leaves record and file as they were; the save loop never
\* changes the record, and nothing changes record or file after the write.
C15_SavePrompt ==
  [][ /\ toml_file' # toml_file
           => pc = "save_prompt" /\ input' \in YesLines /\ toml_file = None
      /\ (pc = "save_prompt" /\ pc' # "error" /\ input' \in NoLines)
           => pc' = "done" /\ toml_file' = toml_file
      /\ (pc = "save_prompt" /\ pc' # "error" /\ input' \notin YesLines \cup NoLines)
           => pc' = "save_prompt" /\ project' = project /\ toml_file' = toml_file
      /\ pc = "save_prompt" => project' = project
      /\ toml_file # None
           => project' = project /\ toml_file' = toml_file /\ pc' = pc ]_vars

\* The record with alias and note, saved after the answer " Yes ".
C15_Witness ==
  /\ pc = "done"
  /\ input = " Yes \n"
  /\ project # None
  /\ project[1].alias = "v2"
  /\ project[1].notes = <<"demo">>
  /\ toml_file = Some(to_toml(project[1]))

====
